---------------------------- MODULE Spec2Model ----------------------------
(***************************************************************************)
(* Model of ProjectState (src/src/project_state.py): the orchestrator that *)
(* runs the five exercises of the Orbea Monegros 2024 analysis in order.   *)
(*                                                                         *)
(* The Python call stack is explicit: run_exercise calls itself for the    *)
(* previous exercise, so each activation is a frame with its local         *)
(* variable (the saved current_exercise) and its position in the body.     *)
(* The exercise functions ex1.main .. ex5.main are external: each          *)
(* execution either returns a DataFrame, returns None, or raises.          *)
(***************************************************************************)
EXTENDS Integers, Sequences, FiniteSets, TLC

VARIABLES
    executed_exercises,   \* self.executed_exercises : set of int
    last_dataframe,       \* self.last_dataframe     : DataFrame or None
    current_exercise,     \* self.current_exercise   : int or None
    stack,                \* Python call stack, innermost activation last
    ret,                  \* value handed back by the activation that ended last
    call,                 \* the call the client made last: [op, arg]
    calls,                \* number of client calls made so far
    pre,                  \* the three attributes as they were when that call was made
    log,                  \* exercise functions executed during that call, in order
    error,                \* class of the exception raised last during that call
    report,               \* diagnostic printed last during that call
    ex1_returned,         \* ex1.main has returned at least once since __init__
    printed,              \* number of diagnostics run_exercise printed during that call
    menu,                 \* where interactive_menu is: "off", "main", "sub" or "exited"
    typed                 \* what input() returned last in interactive_menu

vars == <<executed_exercises, last_dataframe, current_exercise, stack, ret,
          call, calls, pre, log, error, report, ex1_returned, printed, menu, typed>>

---------------------------------------------------------------------------
(* Bounds *)

\* client calls made on one ProjectState instance
MaxCalls == 3

---------------------------------------------------------------------------
(* Values *)

\* Python's None where an exercise number is expected
None == 0

\* Python's None where a DataFrame is expected
NoneDF == [stage |-> 0, call |-> 0]

\* the DataFrame returned by exercise k when executed during client call c
\* (an exercise is executed at most once per client call)
DataFrame(k, c) == [stage |-> k, call |-> c]

\* ProjectState.EJERCICIOS: exercise number -> description
EJERCICIOS ==
    <<"Importacion del dataset y EDA",
      "Anonimizacion de ciclistas y limpieza del dataset",
      "Agrupamiento de tiempos de ciclistas e histograma",
      "Analisis de clubs ciclistas",
      "Analisis especifico del UCSC">>

\* variant of InCatalogue: the numbers are taken to start at 0
InCatalogue_ZeroBased(n) == n \in 0..(Len(EJERCICIOS) - 1)

\* `exercise_number in self.EJERCICIOS`
InCatalogue(n) == n \in DOMAIN EJERCICIOS

\* the end of range(1, 6) in run_all_exercises
RunAllStop == 6

\* exercise numbers a client may pass: the catalogue and one number on each side
ExerciseArgs == 0..(Len(EJERCICIOS) + 1)

\* exception classes the exercise functions raise
CaughtKinds == {"ValueError", "ImportError", "AttributeError", "RuntimeError"}
EscapingKinds == {"FileNotFoundError"}

\* variant of ExceptClause: one clause for the four classes, one text
ExceptClause_Generic(kind) ==
    IF kind \in CaughtKinds THEN "Error de ejecucion" ELSE ""

\* the except clauses of run_exercise: the text printed for an exception
\* class, "" when no clause matches and the exception propagates
ExceptClause(kind) ==
    CASE kind = "ValueError"     -> "Error de validacion"
      [] kind = "ImportError"    -> "Error al importar modulo"
      [] kind = "AttributeError" -> "Error al acceder a atributo"
      [] kind = "RuntimeError"   -> "Error de ejecucion"
      [] OTHER                   -> ""

---------------------------------------------------------------------------
(* Call stack *)

Frame(fn, n, pc) == [fn |-> fn, n |-> n, saved |-> None, pc |-> pc]

Top == stack[Len(stack)]

Pop == SubSeq(stack, 1, Len(stack) - 1)

\* replace the innermost frame
SetTop(f) == [stack EXCEPT ![Len(stack)] = f]

Idle == stack = <<>>

At(fn, pc) == ~Idle /\ Top.fn = fn /\ Top.pc = pc

Snapshot == [executed |-> executed_exercises,
             last     |-> last_dataframe,
             current  |-> current_exercise]

LogEntry(n, res) == [stage |-> n, input |-> last_dataframe, res |-> res]

---------------------------------------------------------------------------
(* State after ProjectState.__init__ *)

\* variant of Init: executed_exercises is an attribute of the class, shared
\* with an instance that has already run exercise 1
Init_SharedSet ==
    /\ executed_exercises = {1}
    /\ last_dataframe = NoneDF
    /\ current_exercise = None
    /\ stack = <<>>
    /\ ret = "none"
    /\ call = [op |-> "none", arg |-> None]
    /\ calls = 0
    /\ pre = [executed |-> {1}, last |-> NoneDF, current |-> None]
    /\ log = <<>>
    /\ error = ""
    /\ report = ""
    /\ ex1_returned = FALSE
    /\ printed = 0
    /\ menu = "off"
    /\ typed = ""

Init ==
    /\ executed_exercises = {}
    /\ last_dataframe = NoneDF
    /\ current_exercise = None
    /\ stack = <<>>
    /\ ret = "none"
    /\ call = [op |-> "none", arg |-> None]
    /\ calls = 0
    /\ pre = [executed |-> {}, last |-> NoneDF, current |-> None]
    /\ log = <<>>
    /\ error = ""
    /\ report = ""
    /\ ex1_returned = FALSE
    /\ printed = 0
    /\ menu = "off"
    /\ typed = ""

---------------------------------------------------------------------------
(* Client calls *)

\* a client calls project.run_exercise(n)
CallRunExercise(n) ==
    /\ Idle
    /\ calls < MaxCalls
    /\ stack' = <<Frame("run_exercise", n, "enter")>>
    /\ call' = [op |-> "run_exercise", arg |-> n]
    /\ calls' = calls + 1
    /\ pre' = Snapshot
    /\ log' = <<>>
    /\ error' = ""
    /\ report' = ""
    /\ ret' = "none"
    /\ printed' = 0
    /\ UNCHANGED <<ex1_returned, executed_exercises, last_dataframe, current_exercise>>

\* variant of Cleared: the reset is missing
Cleared_Kept == executed_exercises

\* executed_exercises after self.executed_exercises.clear()
Cleared == {}

\* a client calls project.run_all_exercises(): clear, then start all(...)
CallRunAll ==
    /\ Idle
    /\ calls < MaxCalls
    /\ executed_exercises' = Cleared
    /\ stack' = <<Frame("run_all_exercises", 1, "next")>>
    /\ call' = [op |-> "run_all_exercises", arg |-> None]
    /\ calls' = calls + 1
    /\ pre' = Snapshot
    /\ log' = <<>>
    /\ error' = ""
    /\ report' = ""
    /\ ret' = "none"
    /\ printed' = 0
    /\ UNCHANGED <<ex1_returned, last_dataframe, current_exercise>>

---------------------------------------------------------------------------
(* run_all_exercises: all(self.run_exercise(i) for i in range(1, 6)) *)

\* the generator yields the next call, or is exhausted and all() is True
AllNext ==
    /\ At("run_all_exercises", "next")
    /\ IF Top.n < RunAllStop
       THEN /\ stack' = Append(SetTop([Top EXCEPT !.pc = "wait"]),
                               Frame("run_exercise", Top.n, "enter"))
            /\ ret' = "none"
       ELSE /\ stack' = Pop
            /\ ret' = "True"
    /\ UNCHANGED <<menu, typed, printed, ex1_returned, executed_exercises, last_dataframe, current_exercise,
                   call, calls, pre, log, error, report>>

\* variant of Continues: every exercise is tried whatever the others returned
Continues_Always(v) == TRUE

\* all() goes on to the next element only after a true one
Continues(v) == v = "True"

\* all() looks at the value of run_exercise(i): stop at the first False
AllTest ==
    /\ At("run_all_exercises", "wait")
    /\ ret \in {"True", "False"}
    /\ IF Continues(ret)
       THEN /\ stack' = SetTop([Top EXCEPT !.n = @ + 1, !.pc = "next"])
            /\ ret' = "none"
       ELSE /\ stack' = Pop
            /\ ret' = "False"
    /\ UNCHANGED <<menu, typed, printed, ex1_returned, executed_exercises, last_dataframe, current_exercise,
                   call, calls, pre, log, error, report>>

---------------------------------------------------------------------------
(* run_exercise *)

\* exercise_number not in EJERCICIOS: ValueError, caught by the first clause
RejectNumber ==
    /\ At("run_exercise", "enter")
    /\ ~InCatalogue(Top.n)
    /\ error' = "ValueError"
    /\ report' = ExceptClause("ValueError")
    /\ stack' = Pop
    /\ ret' = "False"
    /\ printed' = printed + 1
    /\ UNCHANGED <<menu, typed, ex1_returned, executed_exercises, last_dataframe, current_exercise,
                   call, calls, pre, log>>

\* variants of NeedsPrevious: the membership test lost its negation; the test
\* is gone and the previous exercise is always run
NeedsPrevious_Inverted(n) == (n - 1) \in executed_exercises

NeedsPrevious_Always(n) == TRUE

\* variant of NeedsPrevious: current_exercise is used as a guard, and the
\* previous exercise is only run when no other run_exercise is under way
NeedsPrevious_Guarded(n) ==
    (n - 1) \notin executed_exercises /\ current_exercise = None

\* whether run_exercise(n) calls itself for the previous exercise
NeedsPrevious(n) == (n - 1) \notin executed_exercises

\* exercise 1 has no previous exercise: go to the body
EnterFirst ==
    /\ At("run_exercise", "enter")
    /\ InCatalogue(Top.n)
    /\ ~(Top.n > 1)
    /\ stack' = SetTop([Top EXCEPT !.pc = "body"])
    /\ UNCHANGED <<menu, typed, printed, ex1_returned, executed_exercises, last_dataframe, current_exercise, ret,
                   call, calls, pre, log, error, report>>

\* exercise_number > 1 and the previous exercise has not been executed:
\* save current_exercise, set it, call run_exercise(exercise_number - 1)
EnterCallPrevious ==
    /\ At("run_exercise", "enter")
    /\ InCatalogue(Top.n)
    /\ Top.n > 1
    /\ NeedsPrevious(Top.n)
    /\ current_exercise' = Top.n
    /\ stack' = Append(SetTop([Top EXCEPT !.saved = current_exercise,
                                          !.pc = "restore"]),
                       Frame("run_exercise", Top.n - 1, "enter"))
    /\ UNCHANGED <<menu, typed, printed, ex1_returned, executed_exercises, last_dataframe, ret,
                   call, calls, pre, log, error, report>>

\* exercise_number > 1 and the previous exercise is in executed_exercises:
\* current_exercise is saved, set and restored with no call in between
EnterSkipPrevious ==
    /\ At("run_exercise", "enter")
    /\ InCatalogue(Top.n)
    /\ Top.n > 1
    /\ ~NeedsPrevious(Top.n)
    /\ stack' = SetTop([Top EXCEPT !.saved = current_exercise, !.pc = "body"])
    /\ UNCHANGED <<menu, typed, printed, ex1_returned, executed_exercises, last_dataframe, current_exercise, ret,
                   call, calls, pre, log, error, report>>

\* what the caller does once run_exercise(exercise_number - 1) has returned v
AfterPrevious(v) == "body"

\* the nested call returned (its value is not used): restore current_exercise
Restore ==
    /\ At("run_exercise", "restore")
    /\ ret \in {"True", "False"}
    /\ current_exercise' = Top.saved
    /\ stack' = SetTop([Top EXCEPT !.pc = AfterPrevious(ret)])
    /\ ret' = "none"
    /\ UNCHANGED <<menu, typed, printed, ex1_returned, executed_exercises, last_dataframe,
                   call, calls, pre, log, error, report>>

\* variant of Assigned: the value of ex5.main is assigned too
Assigned_Always(n, out) == out

\* variant of Assigned: a returned None is not assigned
Assigned_UnlessNone(n, out) ==
    IF n < Len(EJERCICIOS) /\ out # NoneDF THEN out ELSE last_dataframe

\* last_dataframe after exercise n returned out: exercises 1..4 assign the
\* returned value, the value of ex5.main is dropped
Assigned(n, out) == IF n < Len(EJERCICIOS) THEN out ELSE last_dataframe

\* variant of Marked: the set is replaced instead of extended
Marked_Only(n) == {n}

\* variant of Marked: the number of the previous exercise is added
Marked_Previous(n) == executed_exercises \cup {n - 1}

\* executed_exercises after exercise n returned
Marked(n) == executed_exercises \cup {n}

\* the exercise function returns (a DataFrame or None): assign, mark, True
StageReturns(out, res) ==
    /\ At("run_exercise", "body")
    /\ log' = Append(log, LogEntry(Top.n, res))
    /\ last_dataframe' = Assigned(Top.n, out)
    /\ executed_exercises' = Marked(Top.n)
    /\ stack' = Pop
    /\ ret' = "True"
    /\ ex1_returned' = (ex1_returned \/ Top.n = 1)
    /\ UNCHANGED <<menu, typed, printed, current_exercise, call, calls, pre, error, report>>

StageReturnsDataFrame == StageReturns(DataFrame(Top.n, calls), "ok")

StageReturnsNone == StageReturns(NoneDF, "none")

\* variant of Unmarked: a failing exercise is taken out of the set
Unmarked_Discard(n) == executed_exercises \ {n}

\* executed_exercises after exercise n raised
Unmarked(n) == executed_exercises

\* variant of KeptOnRaise: a failing exercise leaves no DataFrame behind
KeptOnRaise_Cleared == NoneDF

\* last_dataframe after the exercise function raised: the assignment of
\* its value never happens
KeptOnRaise == last_dataframe

\* the exercise function raises an exception one of the except clauses
\* matches: print, return False
StageRaisesCaught(kind) ==
    /\ At("run_exercise", "body")
    /\ ExceptClause(kind) # ""
    /\ log' = Append(log, LogEntry(Top.n, "caught"))
    /\ error' = kind
    /\ report' = ExceptClause(kind)
    /\ executed_exercises' = Unmarked(Top.n)
    /\ last_dataframe' = KeptOnRaise
    /\ stack' = Pop
    /\ ret' = "False"
    /\ printed' = printed + 1
    /\ UNCHANGED <<menu, typed, ex1_returned, current_exercise, call, calls, pre>>

\* the exercise function raises an exception no except clause matches: it
\* propagates through every activation on the stack, out to the client
StageRaisesEscaping(kind) ==
    /\ At("run_exercise", "body")
    /\ ExceptClause(kind) = ""
    /\ log' = Append(log, LogEntry(Top.n, "escaped"))
    /\ error' = kind
    /\ executed_exercises' = Unmarked(Top.n)
    /\ last_dataframe' = KeptOnRaise
    /\ stack' = <<>>
    /\ ret' = "raised"
    /\ UNCHANGED <<menu, typed, printed, ex1_returned, current_exercise, call, calls, pre, report>>

---------------------------------------------------------------------------
(* Specifications *)

\* the steps of ProjectState itself, whatever the exercise functions do
Orchestrate ==
    \/ \E n \in ExerciseArgs : CallRunExercise(n) /\ UNCHANGED <<menu, typed>>
    \/ CallRunAll /\ UNCHANGED <<menu, typed>>
    \/ AllNext
    \/ AllTest
    \/ RejectNumber
    \/ EnterFirst
    \/ EnterCallPrevious
    \/ EnterSkipPrevious
    \/ Restore

\* exercise functions as any stand-in may behave (the tests patch them):
\* each execution returns a DataFrame, returns None, or raises
Next ==
    \/ Orchestrate
    \/ StageReturnsDataFrame
    \/ StageReturnsNone
    \/ \E kind \in CaughtKinds : StageRaisesCaught(kind)
    \/ \E kind \in EscapingKinds : StageRaisesEscaping(kind)

Spec == Init /\ [][Next]_vars

\* variant of RequiresDataFrame: no exercise function tests its argument
RequiresDataFrame_Never(n) == FALSE

\* ex2.main .. ex5.main begin with `if df is None: raise ValueError(...)`
RequiresDataFrame(n) == n > 1

\* the exercise about to be executed would be handed None
LacksInput == RequiresDataFrame(Top.n) /\ last_dataframe = NoneDF

\* ex1.main .. ex5.main as written: given its input the function returns its
\* result (never None for exercises 1..4)
MainReturns ==
    /\ At("run_exercise", "body")
    /\ ~LacksInput
    /\ StageReturnsDataFrame

\* ... or raises; handed None it raises ValueError before anything else
MainRaises(kind) ==
    /\ At("run_exercise", "body")
    /\ LacksInput => kind = "ValueError"
    /\ StageRaisesCaught(kind)

\* the exercise functions of src/src/ex1.py .. ex5.py, in the runs where
\* every exception they raise is of a class run_exercise has a clause for
NextHandled ==
    \/ Orchestrate
    \/ MainReturns
    \/ \E kind \in CaughtKinds : MainRaises(kind)

SpecHandled == Init /\ [][NextHandled]_vars

---------------------------------------------------------------------------
(* Vocabulary of the properties *)

\* the client call made last has come back (with a value or an exception)
Returned == Idle /\ call.op # "none"

ReturnedFrom(op) == Returned /\ call.op = op

\* the exercise function of a log entry raised
Raised(e) == e.res \in {"caught", "escaped"}

\* no exercise function executed during the call raised
AllSucceeded == \A i \in DOMAIN log : ~Raised(log[i])

\* the exercise numbers executed during the call, in order
Stages == [i \in DOMAIN log |-> log[i].stage]

\* the sequence a, a+1, .., b
Ascending(a, b) == [i \in 1..(b - a + 1) |-> a + i - 1]

\* the requested exercise was the last one executed, and it raised
RequestedRaised ==
    /\ log # <<>>
    /\ log[Len(log)].stage = call.arg
    /\ Raised(log[Len(log)])

\* the requested exercise was the last one executed, and it returned
RequestedSucceeded ==
    /\ log # <<>>
    /\ log[Len(log)].stage = call.arg
    /\ ~Raised(log[Len(log)])

---------------------------------------------------------------------------
(* Properties *)

\* C1: when run_exercise(id) runs a missing previous exercise and that
\* exercise's function raises, the call returns False, no exercise above
\* the failed one is executed, and none of them is added to
\* executed_exercises.
C1_PrerequisiteFailureAborts ==
    \A i \in DOMAIN log :
        (ReturnedFrom("run_exercise") /\ log[i].stage < call.arg /\ Raised(log[i]))
        => /\ ret = "False"
           /\ \A j \in DOMAIN log : log[j].stage <= log[i].stage
           /\ \A k \in DOMAIN EJERCICIOS :
                  (k >= log[i].stage /\ k \in executed_exercises)
                  => k \in pre.executed

\* C2: in every reachable state executed_exercises is a prefix of the
\* exercise order: an exercise k > 1 is in it only together with 1..k-1.
C2_CompletedIsPrefix ==
    \A k \in executed_exercises : \A j \in 1..(k - 1) : j \in executed_exercises

\* C3: on a fresh ProjectState, run_exercise(id) for id in 1..5 with every
\* exercise function succeeding returns True, leaves executed_exercises
\* equal to {1..id}, and has executed 1, .., id once each.
C3_TotalOrder ==
    (ReturnedFrom("run_exercise") /\ calls = 1 /\ InCatalogue(call.arg)
        /\ AllSucceeded)
    => /\ ret = "True"
       /\ executed_exercises = 1..call.arg
       /\ Stages = Ascending(1, call.arg)

C3_Witness ==
    /\ ReturnedFrom("run_exercise") /\ calls = 1 /\ call.arg = 5
    /\ AllSucceeded /\ Len(log) = 5
    /\ executed_exercises = 1..5

\* C4: from a state where executed_exercises is {1..j} with j < id, a
\* run_exercise(id) in which every exercise function succeeds executes
\* exactly j+1, .., id, once each and in ascending order, returns True and
\* leaves executed_exercises equal to {1..id}.
C4_RetryRunsMissing ==
    \A j \in 0..Len(EJERCICIOS) :
        (ReturnedFrom("run_exercise") /\ InCatalogue(call.arg) /\ j < call.arg
            /\ pre.executed = 1..j /\ AllSucceeded)
        => /\ ret = "True"
           /\ Stages = Ascending(j + 1, call.arg)
           /\ executed_exercises = 1..call.arg

\* a second attempt at exercise 3 after exercise 2 failed in the first
C4_Witness ==
    /\ ReturnedFrom("run_exercise") /\ calls = 2 /\ call.arg = 3
    /\ pre.executed = {1} /\ pre.last = DataFrame(1, 1)
    /\ AllSucceeded /\ Stages = <<2, 3>>
    /\ executed_exercises = {1, 2, 3}

\* C5: when executed_exercises already contains 1..k, run_exercise(k+1)
\* executes exercise k+1 exactly once and none of 1..k.
C5_SkipIfDone ==
    (ReturnedFrom("run_exercise") /\ InCatalogue(call.arg)
        /\ (1..(call.arg - 1)) \subseteq pre.executed)
    => Stages = <<call.arg>>

C5_Witness ==
    /\ ReturnedFrom("run_exercise") /\ call.arg = 4
    /\ {1, 2, 3} \subseteq pre.executed
    /\ Stages = <<4>>

\* C6: a run_exercise(id) call never executes an exercise below id that was
\* in executed_exercises when the call was made; an exercise that was in it
\* is executed during the call only when it is the requested one.
C6_VisitedOnce ==
    \A i \in DOMAIN log :
        (call.op = "run_exercise" /\ log[i].stage \in pre.executed)
        => log[i].stage = call.arg

\* exercises 1 and 2 stay untouched while 3, 4 and 5 are run for 5
C6_Witness ==
    /\ ReturnedFrom("run_exercise") /\ call.arg = 5
    /\ pre.executed = {1, 2}
    /\ Stages = <<3, 4, 5>>

\* C7: run_exercise(m) for m already in executed_exercises executes m
\* exactly once; when it succeeds executed_exercises has the members it had
\* before and, for m in 1..4, last_dataframe is the value that execution
\* returned.
C7_ExplicitRerun ==
    (ReturnedFrom("run_exercise") /\ call.arg \in pre.executed)
    => /\ Cardinality({i \in DOMAIN log : log[i].stage = call.arg}) = 1
       /\ RequestedSucceeded =>
            /\ executed_exercises = pre.executed
            /\ (call.arg < Len(EJERCICIOS) /\ log[Len(log)].res = "ok")
                 => last_dataframe = DataFrame(call.arg, calls)
            /\ (call.arg < Len(EJERCICIOS) /\ log[Len(log)].res = "none")
                 => last_dataframe = NoneDF

C9_FailureKeepsResult ==
    (ReturnedFrom("run_exercise") /\ RequestedRaised)
    => last_dataframe = pre.last

\* C9 amended: if the function of exercise k raises during run_exercise(k),
\* last_dataframe after the call is the value it had when that function was
\* called; this is the value of before the call when no previous exercise
\* was executed during the call.
C9_FailureKeepsInput ==
    (ReturnedFrom("run_exercise") /\ RequestedRaised)
    => /\ last_dataframe = log[Len(log)].input
       /\ Len(log) = 1 => last_dataframe = pre.last

\* exercise 2 ran as a prerequisite and left its DataFrame, then 3 raised
C9_Witness ==
    /\ ReturnedFrom("run_exercise") /\ RequestedRaised
    /\ call.arg = 3 /\ Stages = <<2, 3>>
    /\ pre.last = DataFrame(1, 1)
    /\ last_dataframe = DataFrame(2, 2)

\* C10: no step of a run_exercise call, whether it succeeds, fails or is
\* given an invalid number, removes a member of executed_exercises; the
\* only step that does is the reset that begins run_all_exercises.
C10_RunExerciseNeverRemoves ==
    [][ \/ executed_exercises \subseteq executed_exercises'
        \/ /\ call'.op = "run_all_exercises"
           /\ calls' = calls + 1
           /\ executed_exercises' = {} ]_vars

\* a failing call on a ProjectState that had completed exercises
C10_Witness ==
    /\ ReturnedFrom("run_exercise") /\ ret = "False"
    /\ pre.executed = {1, 2, 3}
    /\ executed_exercises = {1, 2, 3}
    /\ log # <<>>

\* C11: no exception raised by an exercise function leaves run_exercise or
\* run_all_exercises: every call comes back with a boolean, False when the
\* exercise executed last raised.
C11_NoErrorEscapes ==
    Returned
    => /\ ret \in {"True", "False"}
       /\ (log # <<>> /\ Raised(log[Len(log)])) => ret = "False"

C13_ShortCircuit ==
    \A i \in DOMAIN log :
        (ReturnedFrom("run_all_exercises") /\ Raised(log[i])
            /\ \A j \in 1..(i - 1) : ~Raised(log[j]))
        => /\ ret = "False"
           /\ \A j \in DOMAIN log : log[j].stage <= log[i].stage
           /\ executed_exercises = 1..(log[i].stage - 1)

\* C14: run_all_exercises returns True exactly when each of 1..5 was
\* executed without raising during the call, and then executed_exercises
\* is {1..5}, whatever the state before the call.
C14_RunAllResult ==
    ReturnedFrom("run_all_exercises")
    => /\ ret = "True" <=> (AllSucceeded /\ Stages = Ascending(1, 5))
       /\ ret = "True" => executed_exercises = 1..5

\* a successful run_all_exercises on a ProjectState left in disorder
C14_Witness ==
    /\ ReturnedFrom("run_all_exercises") /\ ret = "True"
    /\ pre.executed = {1, 3}
    /\ executed_exercises = 1..5

\* C15: run_all_exercises begins by emptying executed_exercises; called
\* when executed_exercises is {1..5} and with every exercise function
\* succeeding, it executes 1, .., 5 again, once each and in ascending order.
C15_RunAllReset ==
    /\ call.op = "run_all_exercises"
       => executed_exercises \subseteq {log[i].stage : i \in DOMAIN log}
    /\ (ReturnedFrom("run_all_exercises") /\ pre.executed = 1..5 /\ AllSucceeded)
       => Stages = Ascending(1, 5)

C15_Witness ==
    /\ ReturnedFrom("run_all_exercises") /\ calls = 2
    /\ pre.executed = 1..5 /\ AllSucceeded
    /\ Stages = <<1, 2, 3, 4, 5>>
    /\ last_dataframe = DataFrame(4, 2)

---------------------------------------------------------------------------
(* last_dataframe as a function of what the call has executed *)

\* the entry's exercise function returned and its value was assigned
Assigning(e) == ~Raised(e) /\ e.stage < Len(EJERCICIOS)

\* the value an assigning entry left in last_dataframe
Output(e) == IF e.res = "ok" THEN DataFrame(e.stage, calls) ELSE NoneDF

\* the largest member of a non-empty set of numbers
Max(S) == CHOOSE m \in S : \A x \in S : x <= m

\* what the most recent assigning execution before entry i left: the value
\* of before the call when there is no such execution in the call
LastBefore(i) ==
    LET S == {j \in 1..(i - 1) : j \in DOMAIN log /\ Assigning(log[j])}
    IN  IF S = {} THEN pre.last ELSE Output(log[Max(S)])

\* exercise m was in executed_exercises when entry i was executed
CompletedBefore(i, m) ==
    \/ call.op = "run_exercise" /\ m \in pre.executed
    \/ \E j \in 1..(i - 1) : log[j].stage = m /\ ~Raised(log[j])

\* C17 as stated: between calls last_dataframe is the output of the
\* highest-numbered exercise among 1..4 in executed_exercises (None when
\* there is none).
C17_ResultOfHighest ==
    Idle => LET H == executed_exercises \cap 1..(Len(EJERCICIOS) - 1)
            IN  IF H = {} THEN last_dataframe = NoneDF
                ELSE last_dataframe.stage = Max(H)

\* C17 amended: between calls last_dataframe is the value assigned by the
\* most recent execution of one of exercises 1..4 that returned, None when
\* there has been none since construction: what the last call's latest such
\* execution left, or the value of before that call.
C17_ResultOfLatest ==
    Idle => last_dataframe = LastBefore(Len(log) + 1)

\* exercise 1 was run again after exercise 2 had completed
C17_Witness ==
    /\ ReturnedFrom("run_exercise") /\ call.arg = 1
    /\ executed_exercises = {1, 2}
    /\ pre.last = DataFrame(2, 1)
    /\ last_dataframe = DataFrame(1, 2)

\* C18 as stated: an exercise k > 1 is always handed the most recent
\* output of exercise k-1 (stated for the executions in which k-1 has
\* completed, so that it has an output).
C18_InputFromPrevious ==
    \A i \in DOMAIN log :
        (log[i].stage > 1 /\ CompletedBefore(i, log[i].stage - 1))
        => log[i].input.stage = log[i].stage - 1

\* C18 amended: an exercise k > 1 is handed last_dataframe as it is at that
\* moment, the value assigned by the most recent execution of one of
\* exercises 1..4 that returned; this is the output of k-1 when k-1 has just
\* run and returned a DataFrame in the same call.
C18_InputIsLatest ==
    \A i \in DOMAIN log :
        log[i].stage > 1
        => /\ log[i].input = LastBefore(i)
           /\ (i > 1 /\ log[i - 1].stage = log[i].stage - 1
                     /\ log[i - 1].res = "ok")
              => log[i].input = DataFrame(log[i].stage - 1, calls)

\* exercise 3 is handed the DataFrame of a re-run exercise 1
C18_Witness ==
    /\ ReturnedFrom("run_exercise") /\ call.arg = 3
    /\ {1, 2} \subseteq pre.executed
    /\ Stages = <<3>>
    /\ log[1].input.stage = 1

\* C19: executed_exercises is always a subset of {1..5}.
C19_CompletedInCatalogue ==
    executed_exercises \subseteq DOMAIN EJERCICIOS

\* numbers 0 and 6 have been refused and all five exercises have run
C19_Witness ==
    /\ ReturnedFrom("run_exercise") /\ call.arg \notin DOMAIN EJERCICIOS
    /\ executed_exercises = 1..5

\* C20: last_dataframe is None as long as exercise 1 has never been
\* executed successfully since construction.
C20_NoneUntilLoaded ==
    ~ex1_returned => last_dataframe = NoneDF

---------------------------------------------------------------------------
(* run_exercise as a function of the outcomes of the exercise functions *)

\* what one execution of an exercise function may do
Outcomes == {"ok", "none", "caught", "escaped"}

\* run_exercise(n) called in state st = [executed, last, current, log, ret]
\* when exercise k, if executed, does oc[k]: the state it leaves, with the
\* value it returns in ret ("raised" when an exception leaves it)
RECURSIVE RunExerciseOn(_, _, _)
RunExerciseOn(n, st, oc) ==
    IF n \notin DOMAIN EJERCICIOS
    THEN [st EXCEPT !.ret = "False"]
    ELSE
      LET nested == IF n > 1 /\ (n - 1) \notin st.executed
                    THEN RunExerciseOn(n - 1, [st EXCEPT !.current = n], oc)
                    ELSE [st EXCEPT !.ret = "none"]
      IN  IF nested.ret = "raised"
          THEN nested
          ELSE
            LET s == [nested EXCEPT !.current = st.current]
                e == [stage |-> n, input |-> s.last, res |-> oc[n]]
                out == IF oc[n] = "ok" THEN DataFrame(n, calls) ELSE NoneDF
            IN  CASE oc[n] \in {"ok", "none"} ->
                       [s EXCEPT !.log = Append(@, e),
                                 !.last = IF n < Len(EJERCICIOS) THEN out ELSE @,
                                 !.executed = @ \cup {n},
                                 !.ret = "True"]
                  [] oc[n] = "caught" ->
                       [s EXCEPT !.log = Append(@, e), !.ret = "False"]
                  [] OTHER ->
                       [s EXCEPT !.log = Append(@, e), !.ret = "raised"]

\* the state a call starts in, with executed_exercises as given
Entry(executed) == [executed |-> executed, last |-> pre.last,
                    current |-> pre.current, log |-> <<>>, ret |-> "none"]

\* the state the call made last has left
Exit == [executed |-> executed_exercises, last |-> last_dataframe,
         current |-> current_exercise, log |-> log, ret |-> ret]

\* oc gives every exercise executed during the call the outcome it had
Explains(oc) == \A i \in DOMAIN log : oc[log[i].stage] = log[i].res

\* RunExerciseOn computes what the steps of run_exercise do
RunExerciseOnAgrees ==
    \A oc \in [DOMAIN EJERCICIOS -> Outcomes] :
        (ReturnedFrom("run_exercise") /\ Explains(oc))
        => RunExerciseOn(call.arg, Entry(pre.executed), oc) = Exit

\* C16: run_all_exercises does what emptying executed_exercises and then
\* calling run_exercise(5) does: whatever the exercise functions do, the
\* same exercises are executed in the same order, executed_exercises and
\* last_dataframe end the same, and the same boolean comes back.
C16_RunAllIsRunLast ==
    \A oc \in [DOMAIN EJERCICIOS -> Outcomes] :
        (ReturnedFrom("run_all_exercises") /\ Explains(oc))
        => LET r == RunExerciseOn(Len(EJERCICIOS), Entry({}), oc)
           IN  /\ r.log = log
               /\ r.executed = executed_exercises
               /\ r.last = last_dataframe
               /\ r.ret = ret

---------------------------------------------------------------------------
(* The last exercise, current_exercise, construction *)

\* C21: when run_exercise(5) has returned and ex5.main was executed without
\* raising (it hands back no DataFrame to keep), last_dataframe is still the
\* value ex5.main was given, 5 is in executed_exercises and the call
\* returned True.
C21_LastExerciseKeepsResult ==
    (ReturnedFrom("run_exercise") /\ call.arg = Len(EJERCICIOS) /\ RequestedSucceeded)
    => /\ last_dataframe = log[Len(log)].input
       /\ Len(EJERCICIOS) \in executed_exercises
       /\ ret = "True"

\* run_exercise(5) ran exercises 4 and 5, ex5.main returned None, and the
\* DataFrame of exercise 4 is still there
C21_Witness ==
    /\ ReturnedFrom("run_exercise")
    /\ call.arg = 5
    /\ Stages = <<4, 5>>
    /\ log[1].res = "ok"
    /\ log[2].res = "none"
    /\ last_dataframe = DataFrame(4, calls)
    /\ ret = "True"

\* C22: when no call is on the stack current_exercise is None, and a
\* run_exercise call the client made has left current_exercise as it found
\* it (C22 as stated; an exception no clause catches leaves through the
\* activations that had set current_exercise before they restore it).
C22_CurrentRestored ==
    /\ Idle => current_exercise = None
    /\ ReturnedFrom("run_exercise") => current_exercise = pre.current

\* the part of C22 the code keeps: a run_exercise call that returns a
\* boolean leaves current_exercise as it found it, also when the call it
\* made for the previous exercise returned False
C22_RestoredOnReturn ==
    (ReturnedFrom("run_exercise") /\ ret \in {"True", "False"})
    => current_exercise = pre.current

\* run_all_exercises() called in state st when exercise k, if executed, does
\* oc[k]: clear, then run_exercise(1), run_exercise(2), .. until one does
\* not return True
RECURSIVE RunAllFrom(_, _, _)
RunAllFrom(i, st, oc) ==
    IF i >= RunAllStop
    THEN [st EXCEPT !.ret = "True"]
    ELSE LET r == RunExerciseOn(i, st, oc)
         IN  IF r.ret = "True" THEN RunAllFrom(i + 1, r, oc) ELSE r

RunAllExercisesOn(st, oc) == RunAllFrom(1, [st EXCEPT !.executed = {}], oc)

\* the outcome each exercise had during the call made last (an exercise
\* that was not executed could have had any: "ok" stands for it)
OutcomeInLog ==
    [k \in DOMAIN EJERCICIOS |->
        IF \E i \in DOMAIN log : log[i].stage = k
        THEN log[CHOOSE i \in DOMAIN log : log[i].stage = k].res
        ELSE "ok"]

\* the call made last, made with current_exercise = c instead
WithCurrent(c) ==
    LET st == [Entry(pre.executed) EXCEPT !.current = c]
    IN  IF call.op = "run_exercise"
        THEN RunExerciseOn(call.arg, st, OutcomeInLog)
        ELSE RunAllExercisesOn(st, OutcomeInLog)

\* C23: current_exercise has no effect on what a call does: had the call
\* made last been made on a ProjectState that differs only in
\* current_exercise (any exercise number or None), with the exercise
\* functions behaving the same, it would have executed the same exercises
\* in the same order, left the same executed_exercises and last_dataframe,
\* and returned the same.
C23_CurrentHasNoEffect ==
    Returned =>
        \A c \in {None} \cup DOMAIN EJERCICIOS :
            LET r == WithCurrent(c)
            IN  /\ r.log = log
                /\ r.executed = executed_exercises
                /\ r.last = last_dataframe
                /\ r.ret = ret

\* a call that found current_exercise set (left by an earlier call an
\* exception escaped from) and ran two exercises
C23_Witness ==
    /\ ReturnedFrom("run_exercise")
    /\ pre.current # None
    /\ Len(log) >= 2
    /\ ret = "True"

\* C24: before any call is made on it a ProjectState has an empty
\* executed_exercises, no last_dataframe and no current_exercise, and the
\* keys of EJERCICIOS are exactly 1, 2, 3, 4, 5.
C24_FreshProjectState ==
    calls = 0
    => /\ executed_exercises = {}
       /\ last_dataframe = NoneDF
       /\ current_exercise = None
       /\ DOMAIN EJERCICIOS = 1..5

\* the state __init__ leaves: nothing called, nothing on the stack, nothing
\* executed since
C24_Witness ==
    /\ calls = 0
    /\ call.op = "none"
    /\ Idle
    /\ ~ex1_returned
    /\ Cardinality(DOMAIN EJERCICIOS) = 5

---------------------------------------------------------------------------
(* Diagnostics *)

\* the diagnostic C25 gives for each class of error
LabelOf(kind) ==
    CASE kind = "ValueError"     -> "Error de validacion"
      [] kind = "ImportError"    -> "Error al importar modulo"
      [] kind = "AttributeError" -> "Error al acceder a atributo"
      [] kind = "RuntimeError"   -> "Error de ejecucion"

\* this step is an exercise function raising an exception run_exercise
\* catches
RaisesCaughtNow == Len(log') = Len(log) + 1 /\ log'[Len(log')].res = "caught"

\* this step is run_exercise turning down a number outside EJERCICIOS
RejectsNow ==
    /\ At("run_exercise", "enter")
    /\ Top.n \notin DOMAIN EJERCICIOS
    /\ stack' # stack

---------------------------------------------------------------------------
(* An exercise function that returns None *)

\* exercise functions 1..4 that returned None during the call
ReturnedNone == {i \in DOMAIN log : log[i].res = "none" /\ log[i].stage < Len(EJERCICIOS)}

\* C26 as stated: when one of ex1.main .. ex4.main returns None,
\* last_dataframe keeps the value it had, and the exercise executed next
\* is given that value and not None.
C26_NoneReturnKeepsResult ==
    \A i \in ReturnedNone :
        /\ i = Len(log) => last_dataframe = log[i].input
        /\ i < Len(log) => log[i + 1].input = log[i].input

\* C26: when one of ex1.main .. ex4.main returns None, the None is assigned
\* like any other value: last_dataframe becomes None, the exercise is in
\* executed_exercises, and the exercise executed next in the call is given
\* None.
C26_NoneReturnIsAssigned ==
    \A i \in ReturnedNone :
        /\ i = Len(log) => last_dataframe = NoneDF
        /\ i < Len(log) => log[i + 1].input = NoneDF
        /\ log[i].stage \in executed_exercises

\* run_exercise(3) with exercise 1 done before: ex2.main was given the
\* DataFrame of exercise 1 and returned None, and ex3.main was given None
C26_Witness ==
    /\ ReturnedFrom("run_exercise")
    /\ call.arg = 3
    /\ Stages = <<2, 3>>
    /\ log[1].input # NoneDF
    /\ log[1].res = "none"
    /\ log[2].input = NoneDF
    /\ 2 \in executed_exercises

---------------------------------------------------------------------------
(* What the boolean says *)

\* the entries of the log that are executions of exercise n
ExecutionsOf(n) == {i \in DOMAIN log : log[i].stage = n}

\* C27: when run_exercise(n) has returned True, n is in executed_exercises
\* and the function of exercise n was executed exactly once during the
\* call, last of all, without raising; when it has returned False, n is not
\* a key of EJERCICIOS or the function of exercise n was executed and
\* raised.
C27_BooleanMeaning ==
    ReturnedFrom("run_exercise") =>
        /\ ret = "True"
           => /\ call.arg \in executed_exercises
              /\ Cardinality(ExecutionsOf(call.arg)) = 1
              /\ RequestedSucceeded
        /\ ret = "False"
           => \/ call.arg \notin DOMAIN EJERCICIOS
              \/ RequestedRaised

\* run_exercise(3) returned True although ex2.main had raised: exercise 3
\* was executed once and is marked
C27_Witness ==
    /\ ReturnedFrom("run_exercise")
    /\ call.arg = 3
    /\ ret = "True"
    /\ Stages = <<1, 2, 3>>
    /\ log[2].res = "caught"
    /\ 3 \in executed_exercises
    /\ 2 \notin executed_exercises

\* C28: with ex1.main .. ex5.main as written, as long as ex1.main has never
\* returned, executed_exercises is empty and every run_exercise(k) with k
\* in 1..5 that has returned has returned False: exercise 1 raised, and
\* each later exercise was handed None and raised ValueError.
C28_NothingBeforeLoad ==
    ~ex1_returned
    => /\ executed_exercises = {}
       /\ (ReturnedFrom("run_exercise") /\ call.arg \in DOMAIN EJERCICIOS)
          => ret = "False"

\* run_exercise(5) on a ProjectState whose exercise 1 fails: all five
\* functions were executed, each raised, nothing is marked
C28_Witness ==
    /\ ReturnedFrom("run_exercise")
    /\ call.arg = 5
    /\ ~ex1_returned
    /\ Stages = <<1, 2, 3, 4, 5>>
    /\ \A i \in DOMAIN log : log[i].res = "caught"
    /\ \A i \in 2..5 : log[i].input = NoneDF
    /\ ret = "False"
    /\ executed_exercises = {}

---------------------------------------------------------------------------
(* Termination *)

\* every step but the client's calls: the interpreter running the call
\* that is on the stack
Progress ==
    \/ AllNext
    \/ AllTest
    \/ RejectNumber
    \/ EnterFirst
    \/ EnterCallPrevious
    \/ EnterSkipPrevious
    \/ Restore
    \/ StageReturnsDataFrame
    \/ StageReturnsNone
    \/ \E kind \in CaughtKinds : StageRaisesCaught(kind)
    \/ \E kind \in EscapingKinds : StageRaisesEscaping(kind)

\* the interpreter keeps running the call on the stack, and every exercise
\* function it calls returns or raises
SpecRunning == Spec /\ WF_vars(Progress)

\* the activations of run_exercise on the stack, outermost first
Activations == SelectSeq(stack, LAMBDA f : f.fn = "run_exercise")

\* each nested activation is for the exercise before the one that called it
Descending ==
    \A i \in 1..(Len(Activations) - 1) :
        Activations[i + 1].n = Activations[i].n - 1

\* no exercise function was executed twice during the call
AtMostOnce == \A i, j \in DOMAIN log : log[i].stage = log[j].stage => i = j

\* C29: every call ends; while it runs, each nested activation of
\* run_exercise is for the number one less than its caller's, a
\* run_exercise(n) call with n in 1..5 has at most n activations on the
\* stack, and no exercise function is executed more than once during one
\* call of run_exercise or of run_all_exercises.
C29_Terminates ==
    /\ [](/\ Descending
          /\ (call.op = "run_exercise" /\ call.arg \in DOMAIN EJERCICIOS)
             => Len(Activations) <= call.arg
          /\ AtMostOnce)
    /\ (~Idle ~> Idle)

\* run_exercise(5) at its deepest: five activations, for 5, 4, 3, 2, 1
C29_Witness ==
    /\ call.op = "run_exercise"
    /\ call.arg = 5
    /\ Len(Activations) = 5
    /\ Activations[5].n = 1
    /\ Activations[5].pc = "body"

---------------------------------------------------------------------------
(* interactive_menu (src/main.py) *)

\* what the user may type at a prompt
MenuInputs == {"0", "1", "2", "3", "4", "5", "05", "6", "-1", "x"}

\* int(s) for the strings that are numerals; int raises ValueError for the
\* others
IntOf ==
    ("0" :> 0) @@ ("1" :> 1) @@ ("2" :> 2) @@ ("3" :> 3) @@ ("4" :> 4) @@
    ("5" :> 5) @@ ("05" :> 5) @@ ("6" :> 6) @@ ("-1" :> (0 - 1))

\* variant of MenuAccepts: the upper limit is included
MenuAccepts_Inclusive(ex_num) == 0 <= ex_num /\ ex_num <= Len(EJERCICIOS)

\* if 0 <= ex_num < len(project_state.EJERCICIOS)
MenuAccepts(ex_num) == 0 <= ex_num /\ ex_num < Len(EJERCICIOS)

\* interactive_menu is entered: project_state = ProjectState(), main menu
MenuStart ==
    /\ menu = "off"
    /\ calls = 0
    /\ menu' = "main"
    /\ UNCHANGED <<executed_exercises, last_dataframe, current_exercise, stack, ret,
                   call, calls, pre, log, error, report, ex1_returned, printed, typed>>

\* the menu is at a prompt: no call under way, no exception propagating
Prompt(m) == menu = m /\ Idle /\ ret # "raised"

\* main menu, '0': break
MainExit ==
    /\ Prompt("main")
    /\ typed' = "0"
    /\ menu' = "exited"
    /\ UNCHANGED <<executed_exercises, last_dataframe, current_exercise, stack, ret,
                   call, calls, pre, log, error, report, ex1_returned, printed>>

\* main menu, '1': project_state.run_all_exercises()
MainRunAll ==
    /\ Prompt("main")
    /\ typed' = "1"
    /\ menu' = menu
    /\ CallRunAll

\* main menu, '2': enter the loop of the exercise selection
MainSelect ==
    /\ Prompt("main")
    /\ typed' = "2"
    /\ menu' = "sub"
    /\ UNCHANGED <<executed_exercises, last_dataframe, current_exercise, stack, ret,
                   call, calls, pre, log, error, report, ex1_returned, printed>>

\* main menu, anything else: a message, and the prompt again
MainOther(choice) ==
    /\ Prompt("main")
    /\ choice \notin {"0", "1", "2"}
    /\ typed' = choice
    /\ UNCHANGED <<executed_exercises, last_dataframe, current_exercise, stack, ret,
                   call, calls, pre, log, error, report, ex1_returned, printed, menu>>

\* exercise selection, '0': break, back to the main menu
SelectBack ==
    /\ Prompt("sub")
    /\ typed' = "0"
    /\ menu' = "main"
    /\ UNCHANGED <<executed_exercises, last_dataframe, current_exercise, stack, ret,
                   call, calls, pre, log, error, report, ex1_returned, printed>>

\* exercise selection, a numeral in range: run_exercise(ex_num + 1)
SelectRun(exercise) ==
    /\ Prompt("sub")
    /\ exercise # "0"
    /\ exercise \in DOMAIN IntOf
    /\ LET ex_num == IntOf[exercise] - 1
       IN  /\ MenuAccepts(ex_num)
           /\ CallRunExercise(ex_num + 1)
    /\ typed' = exercise
    /\ menu' = menu

\* exercise selection, a numeral out of range, or no numeral (int raises
\* ValueError, caught in the loop): a message, and the prompt again
SelectInvalid(exercise) ==
    /\ Prompt("sub")
    /\ exercise # "0"
    /\ exercise \in DOMAIN IntOf => ~MenuAccepts(IntOf[exercise] - 1)
    /\ typed' = exercise
    /\ UNCHANGED <<executed_exercises, last_dataframe, current_exercise, stack, ret,
                   call, calls, pre, log, error, report, ex1_returned, printed, menu>>

\* an exception left run_exercise or run_all_exercises: it leaves the
\* exercise selection loop, if it came from there, and `except Exception`
\* of the main loop prints it; the main menu is shown again
MenuCatch ==
    /\ menu \in {"main", "sub"}
    /\ Idle
    /\ ret = "raised"
    /\ menu' = "main"
    /\ ret' = "none"
    /\ UNCHANGED <<executed_exercises, last_dataframe, current_exercise, stack,
                   call, calls, pre, log, error, report, ex1_returned, printed, typed>>

\* ex1.main .. ex5.main as written raise an exception of a class
\* run_exercise has no clause for (handed None, ex2.main .. ex5.main raise
\* ValueError before anything else)
MainEscapes(kind) ==
    /\ At("run_exercise", "body")
    /\ ~LacksInput
    /\ StageRaisesEscaping(kind)

\* interactive_menu, the calls it makes on its ProjectState, and the
\* exercise functions of src/src/ex1.py .. ex5.py those calls execute
NextMenu ==
    \/ MenuStart
    \/ MainExit
    \/ MainRunAll
    \/ MainSelect
    \/ \E choice \in MenuInputs : MainOther(choice)
    \/ SelectBack
    \/ \E exercise \in MenuInputs : SelectRun(exercise)
    \/ \E exercise \in MenuInputs : SelectInvalid(exercise)
    \/ MenuCatch
    \/ AllNext
    \/ AllTest
    \/ EnterFirst
    \/ EnterCallPrevious
    \/ EnterSkipPrevious
    \/ Restore
    \/ MainReturns
    \/ \E kind \in CaughtKinds : MainRaises(kind)
    \/ \E kind \in EscapingKinds : MainEscapes(kind)

SpecMenu == Init /\ [][NextMenu]_vars

\* the input is a numeral of one of the numbers 1..5
NamesExercise(s) == s \in DOMAIN IntOf /\ IntOf[s] \in 1..5

\* C30: in interactive_menu every call is made on the one ProjectState
\* (between calls nothing changes executed_exercises or last_dataframe but
\* the reset run_all_exercises starts with); run_exercise is only called
\* with a number in 1..5, the one typed, and any other input at the
\* exercise selection makes no call; after an exception has left the
\* ProjectState the loop is not left but back at the main menu; and the
\* loop is left only from the main menu, on '0'.
C30_MenuSession ==
    /\ [](/\ call.op = "run_exercise" => call.arg \in 1..5
          /\ ret = "raised" => menu # "exited")
    /\ [][ /\ Idle
              => /\ last_dataframe' = last_dataframe
                 /\ \/ executed_exercises' = executed_exercises
                    \/ call'.op = "run_all_exercises" /\ calls' = calls + 1
           /\ (menu = "sub" /\ calls' = calls + 1)
              => /\ call'.op = "run_exercise"
                 /\ NamesExercise(typed')
                 /\ call'.arg = IntOf[typed']
           /\ (menu = "sub" /\ ~NamesExercise(typed'))
              => calls' = calls
           /\ (menu # "off" /\ ret = "raised") => menu' = "main"
           /\ (menu' = "exited" /\ menu # "exited")
              => menu = "main" /\ typed' = "0"
         ]_vars

\* a session that is over: an exception had left run_exercise half way
\* (current_exercise was left set), later choices went on to complete
\* exercises on the same ProjectState, and the user left with '0'
C30_Witness ==
    /\ menu = "exited"
    /\ typed = "0"
    /\ current_exercise # None
    /\ executed_exercises # {}
    /\ calls >= 2

===========================================================================
